---- MODULE Spec2Model ----
(***************************************************************************)
(* Model of the three batch scripts of the repository:                     *)
(*   scripts/generate_demographics_and_sankey.py  (normalize, main)        *)
(*   scripts/prepare_state_month.py               (detect_column, main)    *)
(* Python floats are IEEE-754 binary64 numbers; the arithmetic of          *)
(* normalize and of the fan-out loop is modelled bit-exactly (53-bit       *)
(* mantissa, round to nearest, ties to even) on natural numbers kept as    *)
(* sequences of limbs, because the values do not fit a machine integer.    *)
(***************************************************************************)
EXTENDS Integers, Sequences, FiniteSets, TLC

(***************************************************************************)
(* Natural numbers of any size: little-endian sequences of limbs in        *)
(* 0..Base-1 without leading (high) zero limbs; <<>> is 0.                 *)
(***************************************************************************)
Base == 2^14

RECURSIVE BitLenSmall(_)
BitLenSmall(x) == IF x = 0 THEN 0 ELSE 1 + BitLenSmall(x \div 2)

LimbBits == BitLenSmall(Base) - 1

RECURSIVE BNorm(_)
BNorm(a) ==
  IF a = <<>> THEN <<>>
  ELSE IF a[Len(a)] = 0 THEN BNorm(SubSeq(a, 1, Len(a) - 1)) ELSE a

RECURSIVE BFromInt(_)
BFromInt(n) == IF n = 0 THEN <<>> ELSE <<n % Base>> \o BFromInt(n \div Base)

RECURSIVE BToInt(_)
BToInt(a) == IF a = <<>> THEN 0 ELSE Head(a) + Base * BToInt(Tail(a))

RECURSIVE BAddC(_, _, _)
BAddC(a, b, c) ==
  IF a = <<>> /\ b = <<>> THEN (IF c = 0 THEN <<>> ELSE <<c>>)
  ELSE LET x == IF a = <<>> THEN 0 ELSE Head(a)
           y == IF b = <<>> THEN 0 ELSE Head(b)
           s == x + y + c
       IN <<s % Base>> \o BAddC(IF a = <<>> THEN <<>> ELSE Tail(a),
                                IF b = <<>> THEN <<>> ELSE Tail(b),
                                s \div Base)

BAdd(a, b) == BAddC(a, b, 0)

RECURSIVE BMulSmallC(_, _, _)
BMulSmallC(a, d, c) ==
  IF a = <<>> THEN (IF c = 0 THEN <<>> ELSE <<c>>)
  ELSE LET s == Head(a) * d + c
       IN <<s % Base>> \o BMulSmallC(Tail(a), d, s \div Base)

RECURSIVE BMul(_, _)
BMul(a, b) ==
  IF a = <<>> \/ b = <<>> THEN <<>>
  ELSE BAdd(BNorm(BMulSmallC(a, Head(b), 0)),
            IF Tail(b) = <<>> THEN <<>> ELSE <<0>> \o BMul(a, Tail(b)))

RECURSIVE BCmpFrom(_, _, _)
BCmpFrom(a, b, i) ==
  IF i = 0 THEN 0
  ELSE IF a[i] < b[i] THEN -1
  ELSE IF a[i] > b[i] THEN 1
  ELSE BCmpFrom(a, b, i - 1)

BCmp(a, b) ==
  IF Len(a) < Len(b) THEN -1
  ELSE IF Len(a) > Len(b) THEN 1
  ELSE BCmpFrom(a, b, Len(a))

\* |a - b| for a >= b, by borrow.
RECURSIVE BSubB(_, _, _)
BSubB(a, b, c) ==
  IF a = <<>> THEN <<>>
  ELSE LET y == (IF b = <<>> THEN 0 ELSE Head(b)) + c
           x == Head(a)
       IN <<(IF x >= y THEN x - y ELSE x + Base - y)>>
            \o BSubB(Tail(a), IF b = <<>> THEN <<>> ELSE Tail(b),
                     IF x >= y THEN 0 ELSE 1)

BDist(a, b) == IF BCmp(a, b) >= 0 THEN BNorm(BSubB(a, b, 0)) ELSE BNorm(BSubB(b, a, 0))

BBitLen(a) ==
  IF a = <<>> THEN 0 ELSE LimbBits * (Len(a) - 1) + BitLenSmall(a[Len(a)])

\* a * 2^s
BShl(a, s) ==
  IF a = <<>> THEN <<>>
  ELSE [i \in 1..(s \div LimbBits) |-> 0] \o BMulSmallC(a, 2^(s % LimbBits), 0)

\* a \div 2^s
BShr(a, s) ==
  LET k == s \div LimbBits
      r == s % LimbBits
      t == IF k >= Len(a) THEN <<>> ELSE SubSeq(a, k + 1, Len(a))
  IN BNorm([i \in 1..Len(t) |->
              (t[i] \div 2^r)
              + (IF i < Len(t) THEN (t[i + 1] % 2^r) * 2^(LimbBits - r) ELSE 0)])

\* a % 2^s
BLow(a, s) ==
  LET k == s \div LimbBits
      r == s % LimbBits
  IN IF k >= Len(a) THEN a
     ELSE BNorm(SubSeq(a, 1, k) \o <<a[k + 1] % 2^r>>)

\* (a * 2^s) \div d and whether the division left a remainder, for 0 < d < Base
\* and s a multiple of LimbBits: schoolbook short division from the top limb.
RECURSIVE BDivSmallR(_, _, _)
BDivSmallR(a, d, r) ==
  IF a = <<>> THEN [q |-> <<>>, r |-> r]
  ELSE LET cur == r * Base + a[Len(a)]
           rest == BDivSmallR(SubSeq(a, 1, Len(a) - 1), d, cur % d)
       IN [q |-> rest.q \o <<cur \div d>>, r |-> rest.r]

(***************************************************************************)
(* Python float: a non-negative binary64 value m * 2^e with                *)
(* 2^52 <= m < 2^53, or zero.  The model's magnitudes stay far from the    *)
(* subnormal and overflow ranges.                                          *)
(***************************************************************************)
MantDig == 53

FZero == [m |-> <<>>, e |-> 0]

\* The binary64 nearest to n * 2^e (n > 0), ties to even.
FRound(n, e) ==
  LET L == BBitLen(n) IN
  IF L <= MantDig
  THEN [m |-> BShl(n, MantDig - L), e |-> e - (MantDig - L)]
  ELSE LET s == L - MantDig
           q == BShr(n, s)
           c == BCmp(BLow(n, s), BShl(<<1>>, s - 1))
           up == c > 0 \/ (c = 0 /\ q[1] % 2 = 1)
           q2 == IF up THEN BAdd(q, <<1>>) ELSE q
       IN IF BBitLen(q2) > MantDig
          THEN [m |-> BShr(q2, 1), e |-> e + s + 1]
          ELSE [m |-> q2, e |-> e + s]

\* float(n) for an int n >= 0
FFromInt(n) == IF n = 0 THEN FZero ELSE FRound(BFromInt(n), 0)

\* a * b
FMul(a, b) ==
  IF a.m = <<>> \/ b.m = <<>> THEN FZero
  ELSE FRound(BMul(a.m, b.m), a.e + b.e)

\* a + b
FAdd(a, b) ==
  IF a.m = <<>> THEN b
  ELSE IF b.m = <<>> THEN a
  ELSE LET hi == IF a.e >= b.e THEN a ELSE b
           lo == IF a.e >= b.e THEN b ELSE a
           d == hi.e - lo.e
       IN IF d > MantDig + 2 THEN hi
          ELSE FRound(BAdd(BShl(hi.m, d), lo.m), lo.e)

\* v / total for ints v >= 0, 0 < total < Base (true division, correctly
\* rounded): the quotient of v * 2^(6 limbs) with a sticky bit for the rest.
FDivInt(v, total) ==
  IF v = 0 THEN FZero
  ELSE LET qr == BDivSmallR([i \in 1..6 |-> 0] \o BFromInt(v), total, 0)
           n == BAdd(BShl(BNorm(qr.q), 1), IF qr.r = 0 THEN <<>> ELSE <<1>>)
       IN FRound(n, 0 - (6 * LimbBits + 1))

\* a < b, a = b, a > b as -1, 0, 1
FCmp(a, b) ==
  IF a.m = <<>> THEN (IF b.m = <<>> THEN 0 ELSE -1)
  ELSE IF b.m = <<>> THEN 1
  ELSE IF a.e < b.e THEN -1
  ELSE IF a.e > b.e THEN 1
  ELSE BCmp(a.m, b.m)

\* int(round(x)): Python rounds a float half to even
PyRound(x) ==
  IF x.m = <<>> THEN 0
  ELSE IF x.e >= 0 THEN BToInt(BShl(x.m, x.e))
  ELSE LET s == 0 - x.e
           q == BShr(x.m, s)
           c == BCmp(BLow(x.m, s), BShl(<<1>>, s - 1))
           qi == BToInt(q)
       IN IF c > 0 \/ (c = 0 /\ qi % 2 = 1) THEN qi + 1 ELSE qi

\* x * 2^ScaleBits as a natural number: the exact value of a float on a
\* fixed-point scale fine enough for every float of the model.
ScaleBits == 3 * MantDig

FScaled(x) == IF x.m = <<>> THEN <<>> ELSE BShl(x.m, x.e + ScaleBits)

(***************************************************************************)
(* Inputs of the model.  A distribution table (a Python dict) is a         *)
(* sequence of [k |-> label, v |-> count] in insertion order; the input    *)
(* file is the sequence of its rows' offenses fields.                      *)
(***************************************************************************)
MaxCount == 2
MaxRows == 2

LocLabels == <<"A", "B">>
WeapLabels == <<"X", "Y">>
OffLabels == <<"P", "Q">>

\* The labels in ascending lexicographic order, as sorted() compares them.
LabelOrder == <<"A", "B", "C", "P", "Q", "X", "Y">>

Table(labels, counts) == [i \in 1..Len(labels) |-> [k |-> labels[i], v |-> counts[i]]]

LocTables == {Table(LocLabels, <<c, 1>>) : c \in 0..1}
WeapTables == {Table(WeapLabels, <<c, d>>) : c \in 0..MaxCount, d \in 0..1}
OffTables == {Table(OffLabels, <<c, 1>>) : c \in 0..MaxCount}
               \cup {Table(OffLabels, <<0, 0>>)}

\* offenses fields: a negative one, zero, and two positive ones
OffenseValues == {0 - 1, 0, 1, 2}

\* every input file of at most MaxRows rows, and the one-row file of the
\* documented scenario
RowSeqs == UNION {[1..n -> OffenseValues] : n \in 0..MaxRows} \cup {<<100>>}

VARIABLES
  pc,            \* position in the script
  LOCATION, WEAPON, OFFENSE_LINK,   \* the distribution tables (module globals)
  rows,          \* offenses of the rows read from state_month.csv
  loc_p, weap_p, off_p,             \* normalized tables
  total_offenses,
  link_agg,      \* ordered dict (source, target) -> float
  nodes_set,
  pos,           \* positions <<record, loc, weap, off>> of the nested loops
  nodes, links,  \* the emitted lists
  fieldnames,    \* prepare_state_month: the header of the input file
  in_rows,       \* its data rows
  cols,          \* the columns detected so far, in the order of lines 80-86
  stderr, exit_status,
  out,           \* the rows written to the output file
  off_col, field, off_value   \* line 134: the column, the row's field, off

sankeyVars == <<LOCATION, WEAPON, OFFENSE_LINK, rows, loc_p, weap_p, off_p,
                total_offenses, link_agg, nodes_set, pos, nodes, links>>

prepVars == <<fieldnames, in_rows, cols, stderr, exit_status, out, off_col, field, off_value>>

vars == <<pc, sankeyVars, prepVars>>

\* Python's None, and the empty text
None == "None"

IdlePrep ==
  /\ fieldnames = <<>> /\ in_rows = <<>> /\ cols = <<>>
  /\ stderr = "" /\ exit_status = 0 /\ out = <<>>
  /\ off_col = None /\ field = <<>> /\ off_value = 0

(***************************************************************************)
(* generate_demographics_and_sankey.py                                     *)
(***************************************************************************)
RECURSIVE SumValues(_)
SumValues(d) == IF d = <<>> THEN 0 ELSE Head(d).v + SumValues(Tail(d))

\* A slip that divides by the largest count instead of the total.
RECURSIVE MaxValue(_)
MaxValue(d) == IF d = <<>> THEN 0 ELSE LET r == MaxValue(Tail(d)) IN IF Head(d).v > r THEN Head(d).v ELSE r

normalizeByMax(d) ==
  LET total == MaxValue(d) IN
  IF total = 0 THEN [i \in 1..Len(d) |-> [k |-> d[i].k, v |-> FZero]]
  ELSE [i \in 1..Len(d) |-> [k |-> d[i].k, v |-> FDivInt(d[i].v, total)]]

\* normalize(d): a new dict over the same keys; int 0 everywhere when the
\* total is 0 (an int 0 and a float 0.0 compare and multiply alike).
normalize(d) ==
  LET total == SumValues(d) IN
  IF total = 0 THEN [i \in 1..Len(d) |-> [k |-> d[i].k, v |-> FZero]]
  ELSE [i \in 1..Len(d) |-> [k |-> d[i].k, v |-> FDivInt(d[i].v, total)]]

\* A slip that leaves the records without offenses out of the total.
RECURSIVE SumPositiveOffenses(_)
SumPositiveOffenses(rs) ==
  IF rs = <<>> THEN 0
  ELSE (IF Head(rs) > 0 THEN Head(rs) ELSE 0) + SumPositiveOffenses(Tail(rs))

\* sum(r['offenses'] for r in rows): Python ints do not overflow
RECURSIVE SumOffenses(_)
SumOffenses(rs) == IF rs = <<>> THEN 0 ELSE Head(rs) + SumOffenses(Tail(rs))

\* if O <= 0: continue
SkipRecord(O) == O <= 0

\* A slip that forgets the weapon probability.
FlowWithoutWeapon(O, pl, pw, po) == FMul(FMul(FFromInt(O), pl), po)

\* cnt = O * pl * pw * po, left to right as the nested loops multiply
Flow(O, pl, pw, po) == FMul(FMul(FMul(FFromInt(O), pl), pw), po)

\* A slip that lets a zero flow through (cnt < 0 instead of cnt <= 0).
SkipFlowNegativeOnly(cnt) == FCmp(cnt, FZero) < 0

\* if cnt <= 0: continue
SkipFlow(cnt) == FCmp(cnt, FZero) <= 0

HasKey(d, key) == \E i \in 1..Len(d) : d[i].key = key

\* A slip that overwrites the weight (= for +=).
DictAddOverwrites(d, key, x) ==
  IF HasKey(d, key)
  THEN [i \in 1..Len(d) |-> IF d[i].key = key THEN [key |-> key, val |-> x] ELSE d[i]]
  ELSE Append(d, [key |-> key, val |-> x])

\* d[key] += x on a defaultdict(float): a missing key starts at 0.0 and is
\* appended, which keeps first-seen order
DictAdd(d, key, x) ==
  IF HasKey(d, key)
  THEN [i \in 1..Len(d) |-> IF d[i].key = key
                            THEN [key |-> key, val |-> FAdd(d[i].val, x)]
                            ELSE d[i]]
  ELSE Append(d, [key |-> key, val |-> FAdd(FZero, x)])

\* A slip that feeds the flow to the first hop only.
AddFlowFirstHopOnly(agg, ns, loc, weap, off, cnt) ==
  [link_agg |-> DictAdd(DictAdd(agg, <<loc, weap>>, cnt), <<weap, off>>, FZero),
   nodes_set |-> ns \cup {loc, weap, off}]

\* lines 101-105: the body of the innermost loop for a retained combination
AddFlow(agg, ns, loc, weap, off, cnt) ==
  [link_agg |-> DictAdd(DictAdd(agg, <<loc, weap>>, cnt), <<weap, off>>, cnt),
   nodes_set |-> ns \cup {loc, weap, off}]

\* sorted(nodes_set)
SortedNodes(ns) == SelectSeq(LabelOrder, LAMBDA n : n \in ns)

\* the links list: one entry per key of link_agg, in dict order
EmitLinks(agg) ==
  [i \in 1..Len(agg) |-> [source |-> agg[i].key[1], target |-> agg[i].key[2],
                          value |-> PyRound(agg[i].val)]]

\* the loop positions after combination p = <<record, loc, weap, off>>
NextPos(p) ==
  IF p[4] < Len(off_p) THEN <<p[1], p[2], p[3], p[4] + 1>>
  ELSE IF p[3] < Len(weap_p) THEN <<p[1], p[2], p[3] + 1, 1>>
  ELSE IF p[2] < Len(loc_p) THEN <<p[1], p[2] + 1, 1, 1>>
  ELSE <<p[1] + 1, 1, 1, 1>>

\* lines 94-105 at position p for a record with offenses O
Combine(acc, O, p) ==
  LET cnt == Flow(O, loc_p[p[2]].v, weap_p[p[3]].v, off_p[p[4]].v)
  IN IF SkipFlow(cnt) THEN acc
     ELSE AddFlow(acc.link_agg, acc.nodes_set,
                  loc_p[p[2]].k, weap_p[p[3]].k, off_p[p[4]].k, cnt)

\* lines 91-105 as a function: the accumulators after the records rs from
\* position p on
RECURSIVE Aggregate(_, _, _)
Aggregate(acc, rs, p) ==
  IF p[1] > Len(rs) THEN acc
  ELSE IF SkipRecord(rs[p[1]]) THEN Aggregate(acc, rs, <<p[1] + 1, 1, 1, 1>>)
  ELSE Aggregate(Combine(acc, rs[p[1]], p), rs, NextPos(p))

EmptyAcc == [link_agg |-> <<>>, nodes_set |-> {}]

IdleSankey ==
  /\ LOCATION = <<>> /\ WEAPON = <<>> /\ OFFENSE_LINK = <<>>
  /\ rows = <<>>
  /\ loc_p = <<>> /\ weap_p = <<>> /\ off_p = <<>>
  /\ total_offenses = 0
  /\ link_agg = <<>>
  /\ nodes_set = {}
  /\ pos = <<1, 1, 1, 1>>
  /\ nodes = <<>> /\ links = <<>>

InitSankey ==
  /\ pc = "read"
  /\ LOCATION \in LocTables
  /\ WEAPON \in WeapTables
  /\ OFFENSE_LINK \in OffTables
  /\ rows \in RowSeqs
  /\ loc_p = <<>> /\ weap_p = <<>> /\ off_p = <<>>
  /\ total_offenses = 0
  /\ link_agg = <<>>
  /\ nodes_set = {}
  /\ pos = <<1, 1, 1, 1>>
  /\ nodes = <<>> /\ links = <<>>
  /\ IdlePrep

\* lines 81-89: normalize the tables, empty accumulators, total_offenses
Setup ==
  /\ pc = "read"
  /\ loc_p' = normalize(LOCATION)
  /\ weap_p' = normalize(WEAPON)
  /\ off_p' = normalize(OFFENSE_LINK)
  /\ link_agg' = <<>>
  /\ nodes_set' = {}
  /\ total_offenses' = SumOffenses(rows)
  /\ pc' = "loop"
  /\ UNCHANGED <<LOCATION, WEAPON, OFFENSE_LINK, rows, pos, nodes, links>>
  /\ UNCHANGED prepVars

\* A slip that leaves the loop at a record without offenses (break for
\* continue).
SkipRowBreak ==
  /\ pc = "loop" /\ pos[1] <= Len(rows)
  /\ SkipRecord(rows[pos[1]])
  /\ pos' = <<Len(rows) + 1, 1, 1, 1>>
  /\ UNCHANGED <<pc, LOCATION, WEAPON, OFFENSE_LINK, rows, loc_p, weap_p, off_p,
                 total_offenses, link_agg, nodes_set, nodes, links>>
  /\ UNCHANGED prepVars

\* line 93: a record with offenses <= 0 is passed over
SkipRow ==
  /\ pc = "loop" /\ pos[1] <= Len(rows)
  /\ SkipRecord(rows[pos[1]])
  /\ pos' = <<pos[1] + 1, 1, 1, 1>>
  /\ UNCHANGED <<pc, LOCATION, WEAPON, OFFENSE_LINK, rows, loc_p, weap_p, off_p,
                 total_offenses, link_agg, nodes_set, nodes, links>>
  /\ UNCHANGED prepVars

\* lines 94-105: one (loc, weap, off) combination of the current record
Combination ==
  /\ pc = "loop" /\ pos[1] <= Len(rows)
  /\ ~SkipRecord(rows[pos[1]])
  /\ LET nxt == Combine([link_agg |-> link_agg, nodes_set |-> nodes_set],
                        rows[pos[1]], pos)
     IN /\ link_agg' = nxt.link_agg
        /\ nodes_set' = nxt.nodes_set
  /\ pos' = NextPos(pos)
  /\ UNCHANGED <<pc, LOCATION, WEAPON, OFFENSE_LINK, rows, loc_p, weap_p, off_p,
                 total_offenses, nodes, links>>
  /\ UNCHANGED prepVars

\* lines 108-115: the nodes and links lists of sankey_us.json
Emit ==
  /\ pc = "loop" /\ pos[1] > Len(rows)
  /\ nodes' = SortedNodes(nodes_set)
  /\ links' = EmitLinks(link_agg)
  /\ pc' = "done"
  /\ UNCHANGED <<LOCATION, WEAPON, OFFENSE_LINK, rows, loc_p, weap_p, off_p,
                 total_offenses, link_agg, nodes_set, pos>>
  /\ UNCHANGED prepVars

NextSankey == Setup \/ SkipRow \/ Combination \/ Emit

Spec == InitSankey /\ [][NextSankey]_vars

(***************************************************************************)
(* What the properties of the Sankey generator are stated with.            *)
(***************************************************************************)
Started == pc \in {"loop", "done"}

RECURSIVE SumOver(_, _)
SumOver(S, f) ==
  IF S = {} THEN 0
  ELSE LET x == CHOOSE y \in S : TRUE IN f[x] + SumOver(S \ {x}, f)

\* the sum of a sequence of ints as a sum over its multiset: each value
\* times the number of its occurrences
MultisetSum(rs) ==
  LET vals == {rs[i] : i \in 1..Len(rs)}
  IN SumOver(vals, [v \in vals |-> v * Cardinality({i \in 1..Len(rs) : rs[i] = v})])

\* S: the sum of offenses over the records with offenses > 0
PositiveSum(rs) == MultisetSum(SelectSeq(rs, LAMBDA O : O > 0))

CountOf(d, label) == SumValues(SelectSeq(d, LAMBDA e : e.k = label))

Labels(d) == {d[i].k : i \in 1..Len(d)}

\* labels of positive probability: a positive count in a table
PositiveLabels(d) == {d[i].k : i \in {j \in 1..Len(d) : d[j].v > 0}}

\* the links that exact arithmetic gives a positive weight
ExpectedKeys ==
  IF PositiveSum(rows) = 0 THEN {}
  ELSE {k \in (PositiveLabels(LOCATION) \X PositiveLabels(WEAPON)) :
          PositiveLabels(OFFENSE_LINK) # {}}
       \cup {k \in (PositiveLabels(WEAPON) \X PositiveLabels(OFFENSE_LINK)) :
               PositiveLabels(LOCATION) # {}}

TableOf(label) ==
  IF label \in Labels(LOCATION) THEN LOCATION
  ELSE IF label \in Labels(WEAPON) THEN WEAPON ELSE OFFENSE_LINK

\* the exact weight of link key = (s, t), S * P(s) * P(t), as a fraction
IdealNum(key) == PositiveSum(rows) * CountOf(TableOf(key[1]), key[1])
                   * CountOf(TableOf(key[2]), key[2])
IdealDen(key) == SumValues(TableOf(key[1])) * SumValues(TableOf(key[2]))

Keys(agg) == {agg[i].key : i \in 1..Len(agg)}
Endpoints(ks) == {k[1] : k \in ks} \cup {k[2] : k \in ks}
LinkKeys(ls) == {<<ls[i].source, ls[i].target>> : i \in 1..Len(ls)}
SeqToSet(q) == {q[i] : i \in 1..Len(q)}

\* the records in the order f, a permutation of their places
Permuted(rs, f) == [i \in 1..Len(rs) |-> rs[f[i]]]

\* what the run emits for the records rs: <<nodes, links>>
Emitted(rs) ==
  LET acc == Aggregate(EmptyAcc, rs, <<1, 1, 1, 1>>)
  IN <<SortedNodes(acc.nodes_set), EmitLinks(acc.link_agg)>>

\* C1: total_offenses is the exact sum of the offenses fields of all
\* records, those with offenses <= 0 included; stated on the multiset of the
\* records, it is the same for every order of them.
C1_TotalIsSumOfAllRecords ==
  Started => total_offenses = MultisetSum(rows)

C1_Witness ==
  pc = "done" /\ rows = <<2, 0 - 1>> /\ total_offenses = 1

\* C2 as stated: every order of the records gives the same links, with the
\* same rounded values, and the same nodes.
C2_OrderIndependentExactly ==
  pc = "done" =>
    \A f \in Permutations(1..Len(rows)) :
      LET e == Emitted(Permuted(rows, f))
      IN /\ e[1] = nodes
         /\ SeqToSet(e[2]) = SeqToSet(links)

\* C2 amended: the set of links and the nodes are those of the multiset of
\* the records (so of every order of them), and each emitted value is the
\* exact weight S * P(s) * P(t) rounded down or up: two orders differ by at
\* most 1 in a value.
C2_OrderIndependentUpToRounding ==
  pc = "done" =>
    /\ LinkKeys(links) = ExpectedKeys
    /\ Len(links) = Cardinality(ExpectedKeys)
    /\ SeqToSet(nodes) = Endpoints(ExpectedKeys)
    /\ \A i \in 1..Len(links) :
         LET key == <<links[i].source, links[i].target>>
             lo == IdealNum(key) \div IdealDen(key)
         IN \/ links[i].value = lo
            \/ links[i].value = lo + 1 /\ IdealNum(key) % IdealDen(key) # 0

C2_Witness ==
  /\ pc = "done" /\ Len(rows) = 2 /\ rows[1] > 0 /\ rows[2] > rows[1]
  /\ Emitted(<<rows[2], rows[1]>>)[2] # links

\* C3: records with offenses = 0 change nothing: the emitted links (pairs,
\* values, order) and nodes are those of the same records without them.
C3_ZeroRecordsChangeNothing ==
  pc = "done" =>
    Emitted(SelectSeq(rows, LAMBDA O : O # 0)) = <<nodes, links>>

C3_Witness ==
  /\ pc = "done" /\ Len(rows) = 2 /\ rows[1] = 0 /\ rows[2] > 0
  /\ links # <<>>

\* C4: the nodes are exactly the labels that are the source or target of a
\* link, and a label of probability zero is neither a node nor an endpoint.
C4_NodesAreLinkEndpoints ==
  /\ Started =>
       /\ nodes_set = Endpoints(Keys(link_agg))
       /\ \A d \in {LOCATION, WEAPON, OFFENSE_LINK} :
            \A l \in Labels(d) \ PositiveLabels(d) :
              l \notin nodes_set /\ l \notin Endpoints(Keys(link_agg))
  /\ pc = "done" =>
       /\ SeqToSet(nodes) = Endpoints(LinkKeys(links))
       /\ Len(nodes) = Cardinality(SeqToSet(nodes))

C4_Witness ==
  /\ pc = "done" /\ links # <<>>
  /\ CountOf(LOCATION, "A") = 0
  /\ CountOf(WEAPON, "Y") = 0
  /\ nodes = <<"B", "P", "Q", "X">>

Weight(agg, key) == (CHOOSE e \in SeqToSet(agg) : e.key = key).val

\* weight * den = num, exactly
ExactlyIdeal(x, num, den) ==
  BMul(FScaled(x), BFromInt(den)) = BShl(BFromInt(num), ScaleBits)

ProbOf(label) == (CHOOSE e \in SeqToSet(loc_p \o weap_p \o off_p) : e.k = label).v

\* S * P(s) * P(t) as float arithmetic computes it from the normalized tables
FloatProduct(key) ==
  FMul(FMul(FFromInt(PositiveSum(rows)), ProbOf(key[1])), ProbOf(key[2]))

\* |weight - num/den| <= k * 2^-52 * num/den: what k roundings to nearest
\* of a 53-bit mantissa can add up to
WithinRoundings(x, num, den, k) ==
  LET got == BMul(FScaled(x), BFromInt(den))
      want == BShl(BFromInt(num), ScaleBits)
  IN BCmp(BShl(BDist(got, want), MantDig - 1), BMul(BFromInt(k), want)) <= 0

\* the number of flows added to one location->weapon edge: one per record
\* with offenses > 0 and offense label of positive probability
FlowsPerEdge ==
  Len(SelectSeq(rows, LAMBDA O : O > 0)) * Cardinality(PositiveLabels(OFFENSE_LINK))

IsScenario ==
  /\ rows = <<100>>
  /\ LOCATION = Table(LocLabels, <<1, 1>>)
  /\ WEAPON = Table(WeapLabels, <<2, 0>>)
  /\ SumValues(OFFENSE_LINK) > 0

ScenarioHolds ==
  /\ {l \in SeqToSet(links) : l.source \in SeqToSet(LocLabels)}
       = {[source |-> "A", target |-> "X", value |-> 50],
          [source |-> "B", target |-> "X", value |-> 50]}
  /\ \A i \in 1..Len(links) : links[i].source # "Y" /\ links[i].target # "Y"
  /\ total_offenses = 100

LocWeapKeys == SeqToSet(LocLabels) \X SeqToSet(WeapLabels)

\* C5 as stated: the scenario's edges, and in general the weight of edge
\* (l, w) is S * P(l) * P(w) (the exact product, or the product as floats
\* multiply it), the edge being there iff that is positive.
C5_EdgeWeightIsExactProduct ==
  pc = "done" =>
    /\ IsScenario => ScenarioHolds
    /\ SumValues(OFFENSE_LINK) > 0 =>
         \A key \in LocWeapKeys :
           /\ key \in Keys(link_agg) <=> IdealNum(key) > 0
           /\ key \in Keys(link_agg) =>
                \/ ExactlyIdeal(Weight(link_agg, key), IdealNum(key), IdealDen(key))
                \/ Weight(link_agg, key) = FloatProduct(key)

\* C5 amended: the scenario's edges as stated; in general the edge (l, w)
\* is there iff S * P(l) * P(w) > 0, and its weight is that product up to
\* the rounding of the float operations that made it: a relative error of
\* at most (n + 5) * 2^-52 for the n flows added to the edge.
C5_EdgeWeightIsProductUpToRounding ==
  pc = "done" =>
    /\ IsScenario => ScenarioHolds
    /\ SumValues(OFFENSE_LINK) > 0 =>
         \A key \in LocWeapKeys :
           /\ key \in Keys(link_agg) <=> IdealNum(key) > 0
           /\ key \in Keys(link_agg) =>
                WithinRoundings(Weight(link_agg, key), IdealNum(key),
                                IdealDen(key), FlowsPerEdge + 5)

C5_Witness ==
  /\ pc = "done" /\ IsScenario
  /\ OFFENSE_LINK = Table(OffLabels, <<2, 1>>)
  /\ Len(links) = 4

RECURSIVE SumScaled(_)
SumScaled(agg) ==
  IF agg = <<>> THEN <<>> ELSE BAdd(FScaled(Head(agg).val), SumScaled(Tail(agg)))

\* the exact sums of the weights of the two hops, on the fixed-point scale
SumLocWeap == SumScaled(SelectSeq(link_agg, LAMBDA e : e.key[1] \in SeqToSet(LocLabels)))
SumWeapOff == SumScaled(SelectSeq(link_agg, LAMBDA e : e.key[1] \in SeqToSet(WeapLabels)))

\* the two sums as float addition gives them, in dict order
RECURSIVE FloatSum(_, _)
FloatSum(acc, agg) == IF agg = <<>> THEN acc ELSE FloatSum(FAdd(acc, Head(agg).val), Tail(agg))

FloatSumLocWeap == FloatSum(FZero, SelectSeq(link_agg, LAMBDA e : e.key[1] \in SeqToSet(LocLabels)))
FloatSumWeapOff == FloatSum(FZero, SelectSeq(link_agg, LAMBDA e : e.key[1] \in SeqToSet(WeapLabels)))

AllPositive == \A i \in 1..Len(link_agg) : FCmp(link_agg[i].val, FZero) > 0

\* an edge stays, at its place, and its weight does not decrease; a step
\* that changes the edges changes those of the current combination only
EdgesOnlyGrow ==
  /\ \A i \in 1..Len(link_agg) :
       /\ i <= Len(link_agg')
       /\ link_agg'[i].key = link_agg[i].key
       /\ FCmp(link_agg'[i].val, link_agg[i].val) >= 0
  /\ \A i \in 1..Len(link_agg') :
       (i > Len(link_agg) \/ link_agg'[i] # link_agg[i]) =>
         link_agg'[i].key \in {<<loc_p[pos[2]].k, weap_p[pos[3]].k>>,
                               <<weap_p[pos[3]].k, off_p[pos[4]].k>>}

\* the combinations processed so far are at most this many
CombinationsSoFar == pos[1] * Len(loc_p) * Len(weap_p) * Len(off_p)

\* C10 as stated: at every point of the aggregation the two hops carry the
\* same total weight (summed exactly, or as floats add), every edge is
\* positive, and edges only grow.
C10_BothHopsCarryTheSameFlow ==
  /\ [](Started =>
          /\ AllPositive
          /\ SumLocWeap = SumWeapOff \/ FloatSumLocWeap = FloatSumWeapOff)
  /\ [][EdgesOnlyGrow]_vars

\* C10 amended: the two totals agree up to float rounding (a relative
\* difference of at most n * 2^-50 after n combinations); every edge is
\* positive, and edges only grow.
C10_BothHopsCarryTheSameFlowUpToRounding ==
  /\ [](Started =>
          /\ AllPositive
          /\ SumLocWeap = <<>> <=> SumWeapOff = <<>>
          /\ LET hi == IF BCmp(SumLocWeap, SumWeapOff) >= 0 THEN SumLocWeap ELSE SumWeapOff
             IN BCmp(BShl(BDist(SumLocWeap, SumWeapOff), MantDig - 3),
                     BMul(BFromInt(CombinationsSoFar), hi)) <= 0)
  /\ [][EdgesOnlyGrow]_vars

C10_Witness ==
  /\ pc = "loop" /\ pos[1] = 2 /\ pos[2] = 2
  /\ Len(link_agg) >= 6
  /\ SumLocWeap # SumWeapOff

(***************************************************************************)
(* normalize as a function of its argument: the call of line 81 on every   *)
(* small table of three labels.                                            *)
(***************************************************************************)
MaxNormCount == 4

NormLabels == <<"A", "B", "C">>

NormTables == {Table(NormLabels, c) : c \in [1..Len(NormLabels) -> 0..MaxNormCount]}

InitNorm ==
  /\ pc = "call"
  /\ LOCATION \in NormTables
  /\ WEAPON = <<>> /\ OFFENSE_LINK = <<>>
  /\ rows = <<>>
  /\ loc_p = <<>> /\ weap_p = <<>> /\ off_p = <<>>
  /\ total_offenses = 0
  /\ link_agg = <<>>
  /\ nodes_set = {}
  /\ pos = <<1, 1, 1, 1>>
  /\ nodes = <<>> /\ links = <<>>
  /\ IdlePrep

\* line 81: loc_p = normalize(LOCATION)
NormalizeCall ==
  /\ pc = "call"
  /\ loc_p' = normalize(LOCATION)
  /\ pc' = "returned"
  /\ UNCHANGED <<LOCATION, WEAPON, OFFENSE_LINK, rows, weap_p, off_p,
                 total_offenses, link_agg, nodes_set, pos, nodes, links>>
  /\ UNCHANGED prepVars

SpecNorm == InitNorm /\ [][NormalizeCall]_vars

\* sum(d.values()): from the int 0, left to right
RECURSIVE PySum(_, _)
PySum(acc, d) == IF d = <<>> THEN acc ELSE PySum(FAdd(acc, Head(d).v), Tail(d))

\* the exact sum of the values, on the fixed-point scale
RECURSIVE ExactSum(_)
ExactSum(d) == IF d = <<>> THEN <<>> ELSE BAdd(FScaled(Head(d).v), ExactSum(Tail(d)))

One == BShl(<<1>>, ScaleBits)

SameLabels(d, n) ==
  Len(n) = Len(d) /\ \A i \in 1..Len(d) : n[i].k = d[i].k

\* each value is count/total rounded to a float, and lies in [0, 1]
ValuesAreQuotients(d, n) ==
  \A i \in 1..Len(d) :
    /\ d[i].v = 0 <=> n[i].v = FZero
    /\ d[i].v > 0 => WithinRoundings(n[i].v, d[i].v, SumValues(d), 1)
    /\ FCmp(n[i].v, FFromInt(1)) <= 0

AllZero(n) == \A i \in 1..Len(n) : n[i].v = FZero

\* C6 as stated: same labels; with a positive total every value is
\* count/total in [0, 1] and the values sum to 1 (as Python sums them, or
\* exactly); with a zero total every value is 0.
C6_NormalizeSumsToOne ==
  pc = "returned" =>
    /\ SameLabels(LOCATION, loc_p)
    /\ SumValues(LOCATION) > 0 =>
         /\ ValuesAreQuotients(LOCATION, loc_p)
         /\ PySum(FZero, loc_p) = FFromInt(1) \/ ExactSum(loc_p) = One
    /\ SumValues(LOCATION) = 0 => AllZero(loc_p)

\* C6 amended: the values sum to 1 up to float rounding: the sum Python
\* computes, and the exact sum, are within n * 2^-52 of 1 for n labels.
C6_NormalizeSumsToOneUpToRounding ==
  pc = "returned" =>
    /\ SameLabels(LOCATION, loc_p)
    /\ SumValues(LOCATION) > 0 =>
         /\ ValuesAreQuotients(LOCATION, loc_p)
         /\ WithinRoundings(PySum(FZero, loc_p), 1, 1, Len(loc_p))
         /\ BCmp(BShl(BDist(ExactSum(loc_p), One), MantDig - 1),
                 BMul(BFromInt(Len(loc_p)), One)) <= 0
    /\ SumValues(LOCATION) = 0 => AllZero(loc_p)

C6_Witness ==
  /\ pc = "returned"
  /\ LOCATION = Table(NormLabels, <<1, 4, 1>>)
  /\ PySum(FZero, loc_p) # FFromInt(1)

(***************************************************************************)
(* prepare_state_month.py                                                  *)
(***************************************************************************)
TypeError == "TypeError"
ValueError == "ValueError"

\* lines 80-86: the names each logical column is looked for under
Candidates ==
  << <<"month", "date", "incident_date", "reported_date">>,
     <<"state_fips", "fips">>,
     <<"state_abbr", "state", "abbr">>,
     <<"state_name", "state_name_full", "state_full", "state_name_raw">>,
     <<"offenses", "offense_count", "count", "incidents", "n">>,
     <<"clearances", "clearance", "clearance_count", "clearances_count">>,
     <<"population", "pop", "state_population">> >>

\* the names c for which "c in row" holds: the items of a list, the keys
\* of a dict
Names(row) == IF row.type = "list" THEN row.items ELSE DOMAIN row.items

\* detect_column(row, candidates): the first candidate that row holds with
\* a non-empty value, None if there is none, or the exception raised:
\* "c in row" raises for None, and row[c] raises for a list, which takes no
\* str index
RECURSIVE detect_column(_, _)
detect_column(row, candidates) ==
  IF candidates = <<>> THEN None
  ELSE LET c == Head(candidates)
       IN IF row.type = "NoneType" THEN TypeError
          ELSE IF c \notin Names(row) THEN detect_column(row, Tail(candidates))
          ELSE IF row.type = "list" THEN TypeError
          ELSE IF row.items[c] # "" THEN c
          ELSE detect_column(row, Tail(candidates))

HeaderUniverse ==
  {"month", "date", "state_fips", "state_abbr", "state_name",
   "offenses", "clearances", "population", "notes"}

\* r.fieldnames: the list of the header's names, None for an empty file
NoHeader == [type |-> "NoneType", items |-> {}]

Headers == {[type |-> "list", items |-> h] : h \in SUBSET HeaderUniverse} \cup {NoHeader}

\* two rows of the same (month, state_fips), and one row
DuplicateRows ==
  << [month |-> "2021-01", state_fips |-> "1", offenses |-> "3", clearances |-> "1"],
     [month |-> "2021-01", state_fips |-> "1", offenses |-> "4", clearances |-> "2"] >>

InputRows == {<<>>, <<DuplicateRows[1]>>, DuplicateRows}

InitPrep ==
  /\ pc = "detect"
  /\ IdleSankey
  /\ fieldnames \in Headers
  /\ in_rows \in InputRows
  /\ cols = <<>>
  /\ stderr = "" /\ exit_status = 0 /\ out = <<>>
  /\ off_col = None /\ field = <<>> /\ off_value = 0

\* lines 80-86, one call at a time; an exception nobody catches ends the
\* process with a traceback and status 1
DetectColumn ==
  /\ pc = "detect"
  /\ LET col == detect_column(fieldnames, Candidates[Len(cols) + 1])
     IN IF col = TypeError
        THEN /\ pc' = "exit"
             /\ stderr' = "Traceback: TypeError"
             /\ exit_status' = 1
             /\ UNCHANGED cols
        ELSE /\ cols' = Append(cols, col)
             /\ pc' = IF Len(cols') = Len(Candidates) THEN "check" ELSE "detect"
             /\ UNCHANGED <<stderr, exit_status>>
  /\ UNCHANGED <<fieldnames, in_rows, out, off_col, field, off_value>>
  /\ UNCHANGED sankeyVars

\* lines 88-93: the required columns; then lines 95-164 aggregate and write,
\* which no run reaches: detect_column raises for every name the header has
CheckColumns ==
  /\ pc = "check"
  /\ IF cols[1] = None
     THEN /\ stderr' = "ERROR: Could not detect date/month column in input"
          /\ exit_status' = 2
          /\ pc' = "exit"
     ELSE IF cols[2] = None /\ cols[3] = None /\ cols[4] = None
     THEN /\ stderr' = "ERROR: Could not detect state identifier column (fips/abbr/name)"
          /\ exit_status' = 2
          /\ pc' = "exit"
     ELSE /\ pc' = "aggregate"
          /\ UNCHANGED <<stderr, exit_status>>
  /\ UNCHANGED <<fieldnames, in_rows, cols, out, off_col, field, off_value>>
  /\ UNCHANGED sankeyVars

NextPrep == DetectColumn \/ CheckColumns

SpecPrep == InitPrep /\ [][NextPrep]_vars

HeaderHas(names) == names \cap fieldnames.items # {}

HasDateColumn == HeaderHas(SeqToSet(Candidates[1]))
HasStateColumn ==
  HeaderHas(SeqToSet(Candidates[2]) \cup SeqToSet(Candidates[3]) \cup SeqToSet(Candidates[4]))

OutputHeader ==
  <<"month", "state_fips", "state_abbr", "state_name", "offenses", "clearances", "population">>

\* C7: a recognized header and two rows of the same (month, state_fips):
\* the run completes and writes one row for the key, with the sums.
C7_DuplicateKeysAreSummed ==
  (/\ pc \in {"exit", "aggregate"}
   /\ {"month", "state_fips", "offenses", "clearances"} \subseteq fieldnames.items
   /\ in_rows = DuplicateRows)
  => /\ exit_status = 0
     /\ out = <<OutputHeader, <<"2021-01", 1, "AL", "Alabama", 7, 3, 0>> >>

\* C8: a header without a date column, or without any state column, whatever
\* else it holds: the run ends with the message that names the missing field,
\* a non-zero status and nothing written.
C8_MissingColumnIsReported ==
  (pc \in {"exit", "aggregate"} /\ fieldnames # NoHeader
     /\ (~HasDateColumn \/ ~HasStateColumn))
  => /\ pc = "exit"
     /\ exit_status # 0
     /\ out = <<>>
     /\ stderr = IF ~HasDateColumn
                 THEN "ERROR: Could not detect date/month column in input"
                 ELSE "ERROR: Could not detect state identifier column (fips/abbr/name)"

(***************************************************************************)
(* Line 134 as a function of the row's field:                              *)
(*   off = int(float(row.get(off_col,0) or 0)) if off_col else 0           *)
(* A field is the sequence of its characters; NoField is the None that     *)
(* DictReader gives a row shorter than the header.                         *)
(***************************************************************************)
MaxFieldLen == 2

Digits == <<"0", "1", "7">>
FieldChars == SeqToSet(Digits) \cup {".", "a", "-"}

NoField == <<"None">>

Fields == UNION {[1..n -> FieldChars] : n \in 0..MaxFieldLen} \cup {NoField}

DigitValue(c) == IF c = "0" THEN 0 ELSE IF c = "1" THEN 1 ELSE 7

AreDigits(s) == \A i \in 1..Len(s) : s[i] \in SeqToSet(Digits)

RECURSIVE DigitsValue(_)
DigitsValue(s) ==
  IF s = <<>> THEN 0 ELSE 10 * DigitsValue(SubSeq(s, 1, Len(s) - 1)) + DigitValue(s[Len(s)])

\* int(float(s)) for an unsigned text: digits with at most one point and at
\* least one digit; the float's fraction is cut off
IntOfUnsigned(s) ==
  LET dots == {i \in 1..Len(s) : s[i] = "."}
  IN IF dots = {}
     THEN IF s # <<>> /\ AreDigits(s)
          THEN [raised |-> "", value |-> DigitsValue(s)]
          ELSE [raised |-> ValueError, value |-> 0]
     ELSE LET k == CHOOSE i \in dots : TRUE
              ip == SubSeq(s, 1, k - 1)
              fp == SubSeq(s, k + 1, Len(s))
          IN IF Cardinality(dots) = 1 /\ AreDigits(ip) /\ AreDigits(fp)
                /\ Len(ip) + Len(fp) >= 1
             THEN [raised |-> "", value |-> DigitsValue(ip)]
             ELSE [raised |-> ValueError, value |-> 0]

\* int(float(s)) for a text s
IntOfFloat(s) ==
  IF s # <<>> /\ s[1] = "-"
  THEN LET r == IntOfUnsigned(Tail(s)) IN [raised |-> r.raised, value |-> 0 - r.value]
  ELSE IntOfUnsigned(s)

\* int(float(x or 0)) if col else 0
CoerceCount(col, x) ==
  IF col = None THEN [raised |-> "", value |-> 0]
  ELSE IF x = NoField \/ x = <<>> THEN [raised |-> "", value |-> 0]
  ELSE IntOfFloat(x)

InitCoerce ==
  /\ pc = "row"
  /\ IdleSankey
  /\ fieldnames = <<>> /\ in_rows = <<>> /\ cols = <<>>
  /\ stderr = "" /\ exit_status = 0 /\ out = <<>>
  /\ off_col \in {None, "offenses"}
  /\ field \in Fields
  /\ off_value = 0

\* line 134 for one row; an exception nobody catches ends the process
CoerceOffenses ==
  /\ pc = "row"
  /\ LET r == CoerceCount(off_col, field)
     IN IF r.raised # ""
        THEN /\ pc' = "exit"
             /\ stderr' = "Traceback: ValueError"
             /\ exit_status' = 1
             /\ UNCHANGED off_value
        ELSE /\ pc' = "coerced"
             /\ off_value' = r.value
             /\ UNCHANGED <<stderr, exit_status>>
  /\ UNCHANGED <<fieldnames, in_rows, cols, out, off_col, field>>
  /\ UNCHANGED sankeyVars

SpecCoerce == InitCoerce /\ [][CoerceOffenses]_vars

\* the text is a number of the modelled alphabet
IsNumber(s) == s # NoField /\ IntOfFloat(s).raised = ""

====
